---- MODULE Spec2Model ----
(***************************************************************************)
(* State-machine model of the TotalSegmentator HTTP service (src/main.py): *)
(* the /segment/, /example/ and /download/ handlers, the session           *)
(* directories they create under the temp root, and process shutdown.      *)
(*                                                                         *)
(* A path is a sequence of components; a component is a sequence of name   *)
(* pieces (stem followed by extensions), so that `output_dir + ".nii"` is  *)
(* an operation on the last component.  The file system is a function from *)
(* paths to contents.  A string is a sequence of one-character strings.    *)
(***************************************************************************)
EXTENDS Integers, Sequences, FiniteSets, TLC

\* ------------------------------------------------------------------ bounds
NumRequests == 2
NumIds == 2

Tokens == <<"u1", "u2", "u3", "u4", "u5">>
SessionIds == {Tokens[i] : i \in 1..NumIds}
Requests == 1..NumRequests

NoId == "none"

\* ------------------------------------------------------- paths and the disk
TEMP_DIR == << <<"totalsegmentator_api">> >>

EXAMPLE_INPUT == << <<".">>, <<"mri", ".nii", ".gz">> >>

join(dir, name) == dir \o <<name>>

AddSuffix(path, ext) == [path EXCEPT ![Len(path)] = @ \o <<ext>>]

IsPrefix(d, p) == Len(d) <= Len(p) /\ SubSeq(p, 1, Len(d)) = d

exists(disk, p) == p \in DOMAIN disk

WriteFile(disk, p, c) == [q \in DOMAIN disk \cup {p} |-> IF q = p THEN c ELSE disk[q]]

makedirs(disk, p) ==
    LET new == {SubSeq(p, 1, n) : n \in 1..Len(p)} \ DOMAIN disk
    IN  [q \in DOMAIN disk \cup new |-> IF q \in new THEN "dir" ELSE disk[q]]

rmtree(disk, d) == [q \in {p \in DOMAIN disk : ~IsPrefix(d, p)} |-> disk[q]]

\* ----------------------------------------------------- per-request locals
session_dir(session_id) == join(TEMP_DIR, <<session_id>>)

input_path(session_id) == join(session_dir(session_id), <<"input", ".nii", ".gz">>)

output_dir(session_id) == join(session_dir(session_id), <<"segmented_image">>)

RereadPath_gz(session_id) == AddSuffix(AddSuffix(output_dir(session_id), ".nii"), ".gz")

RereadPath(session_id) == AddSuffix(output_dir(session_id), ".nii")

download_file_path(session_id) ==
    join(join(TEMP_DIR, <<session_id>>), <<"segmented_image", ".nii">>)

download_url(session_id) == <<"download", session_id, "segmentation.nii">>

\* ------------------------------------------------------------ image_type
UpperChar(c) ==
    CASE c = "m" -> "M"
      [] c = "r" -> "R"
      [] c = "c" -> "C"
      [] c = "t" -> "T"
      [] c = "i" -> "I"
      [] OTHER -> c

upper_case_sensitive(s) == s

upper(s) == [i \in DOMAIN s |-> UpperChar(s[i])]

Absent == [present |-> FALSE, value |-> <<>>]

Given(s) == [present |-> TRUE, value |-> s]

ImageTypeStrings ==
    { <<"M", "R">>, <<"m", "r">>, <<"M", "r">>, <<"m", "R">>,
      <<"C", "T">>, <<"m", "r", "i">>, <<"M", "R", " ">> }

ImageTypeFields == {Given(s) : s \in ImageTypeStrings} \cup {Absent}

FormValue(field) == IF field.present THEN field.value ELSE <<"M", "R">>

SelectTask(image_type) == IF upper(image_type) = <<"M", "R">> THEN "total_mr" ELSE "total"

\* ------------------------------------------------------------- responses
NoResp == [code |-> 0]

SuccessResponse(session_id, label_map_dict) ==
    [ code |-> 200,
      status |-> "success",
      session_id |-> session_id,
      download_url |-> download_url(session_id),
      segmentation_type |-> "Nifti1Image",
      label_map |-> label_map_dict ]

SegmentationFailed(exc) == [code |-> 500, detail |-> <<"Segmentation failed: ", exc>>]

InternalServerError == [code |-> 500, detail |-> <<"Internal Server Error">>]

DownloadResponse_dir_check(disk, session_id) ==
    IF ~exists(disk, join(TEMP_DIR, <<session_id>>))
    THEN [code |-> 404, detail |-> <<"Segmentation not found">>]
    ELSE [code |-> 200, body |-> download_file_path(session_id),
          filename |-> "segmentation.nii"]

DownloadResponse(disk, session_id) ==
    IF ~exists(disk, download_file_path(session_id))
    THEN [code |-> 404, detail |-> <<"Segmentation not found">>]
    ELSE [code |-> 200, body |-> download_file_path(session_id),
          filename |-> "segmentation.nii"]

\* ---------------------------------------------------------------- state
VARIABLES running, fs, issued, pc, kind, session_id, output_img, args, invocations, resp

vars == <<running, fs, issued, pc, kind, session_id, output_img, args, invocations, resp>>

NoArgs == [image_type |-> Absent, task |-> "none"]

Init ==
    /\ running = TRUE
    /\ fs = WriteFile(makedirs(<<>>, TEMP_DIR), EXAMPLE_INPUT, "nifti")
    /\ issued = {}
    /\ pc = [r \in Requests |-> "idle"]
    /\ kind = [r \in Requests |-> "none"]
    /\ session_id = [r \in Requests |-> NoId]
    /\ output_img = [r \in Requests |-> "none"]
    /\ args = [r \in Requests |-> NoArgs]
    /\ invocations = [r \in Requests |-> 0]
    /\ resp = [r \in Requests |-> NoResp]

uuid4_repeating(used) == SessionIds

uuid4(used) == SessionIds \ used

cleanup(disk) == IF exists(disk, TEMP_DIR) THEN rmtree(disk, TEMP_DIR) ELSE disk

\* No exit hook is ever registered: atexit is imported but unused, and the
\* lifespan context manager is defined after the app and never attached.
RegisteredExitHooks == {}

RunExitHooks(disk) == IF "cleanup" \in RegisteredExitHooks THEN cleanup(disk) ELSE disk

ExceptCleanup_skipped(disk, dir) == disk

ExceptCleanup_temp_root(disk, dir) == IF exists(disk, dir) THEN rmtree(disk, TEMP_DIR) ELSE disk

ExceptCleanup(disk, dir) == IF exists(disk, dir) THEN rmtree(disk, dir) ELSE disk

\* nib.save(img, filename) with an extension-less filename: the codec picks the
\* file name; the handler assumes ".nii" (the plain NIfTI single file), the
\* compressed form is the other name the layout documents.
SaveNames(path) == {AddSuffix(path, ".nii"), AddSuffix(AddSuffix(path, ".nii"), ".gz")}

UploadContents == {"nifti", "corrupt"}

SegmentKinds == {"segment", "example"}

Terminal == {"RESPONDED", "FAILED", "UNHANDLED", "DONE"}

\* ------------------------------------------------- the except clause (85-89)
Raise(r, disk, exc) ==
    /\ fs' = ExceptCleanup(disk, session_dir(session_id[r]))
    /\ resp' = [resp EXCEPT ![r] = SegmentationFailed(exc)]
    /\ pc' = [pc EXCEPT ![r] = "FAILED"]
    /\ output_img' = [output_img EXCEPT ![r] = "none"]
    /\ args' = [args EXCEPT ![r] = NoArgs]

\* ------------------------------------------------------ POST /segment/
segment_image_begin(r) ==
    /\ running /\ pc[r] = "idle"
    /\ \E id \in uuid4(issued) :
          /\ issued' = issued \cup {id}
          /\ session_id' = [session_id EXCEPT ![r] = id]
          /\ fs' = makedirs(fs, session_dir(id))
    /\ kind' = [kind EXCEPT ![r] = "segment"]
    /\ pc' = [pc EXCEPT ![r] = "DIR_CREATED"]
    /\ UNCHANGED <<running, output_img, args, invocations, resp>>

\* os.makedirs raises outside the try block: no handler, the framework answers.
begin_makedirs_fails(r) ==
    /\ running /\ pc[r] = "idle"
    /\ \E id \in uuid4(issued), k \in SegmentKinds :
          /\ issued' = issued \cup {id}
          /\ session_id' = [session_id EXCEPT ![r] = id]
          /\ kind' = [kind EXCEPT ![r] = k]
    /\ pc' = [pc EXCEPT ![r] = "UNHANDLED"]
    /\ resp' = [resp EXCEPT ![r] = InternalServerError]
    /\ UNCHANGED <<running, fs, output_img, args, invocations>>

segment_save_upload(r) ==
    /\ running /\ pc[r] = "DIR_CREATED" /\ kind[r] = "segment"
    /\ \E content \in UploadContents :
          fs' = WriteFile(fs, input_path(session_id[r]), content)
    /\ pc' = [pc EXCEPT ![r] = "WRITTEN"]
    /\ UNCHANGED <<running, issued, kind, session_id, output_img, args, invocations, resp>>

\* open(), file.read() or buffer.write() raises: still outside the try block.
segment_save_upload_fails(r) ==
    /\ running /\ pc[r] = "DIR_CREATED" /\ kind[r] = "segment"
    /\ \E opened \in BOOLEAN :
          fs' = IF opened /\ exists(fs, session_dir(session_id[r]))
                THEN WriteFile(fs, input_path(session_id[r]), "corrupt")
                ELSE fs
    /\ pc' = [pc EXCEPT ![r] = "UNHANDLED"]
    /\ resp' = [resp EXCEPT ![r] = InternalServerError]
    /\ UNCHANGED <<running, issued, kind, session_id, output_img, args, invocations>>

\* ------------------------------------------------------ GET /example/
segment_example_begin(r) ==
    /\ running /\ pc[r] = "idle"
    /\ \E id \in uuid4(issued) :
          /\ issued' = issued \cup {id}
          /\ session_id' = [session_id EXCEPT ![r] = id]
          /\ fs' = makedirs(fs, session_dir(id))
    /\ kind' = [kind EXCEPT ![r] = "example"]
    /\ pc' = [pc EXCEPT ![r] = "DIR_CREATED"]
    /\ UNCHANGED <<running, output_img, args, invocations, resp>>

\* ------------------------------------- the try block of both handlers
LoadPc(k) == IF k = "segment" THEN "WRITTEN" ELSE "DIR_CREATED"

LoadPath(r) == IF kind[r] = "segment" THEN input_path(session_id[r]) ELSE EXAMPLE_INPUT

nib_load(r) ==
    /\ running /\ kind[r] \in SegmentKinds /\ pc[r] = LoadPc(kind[r])
    /\ exists(fs, LoadPath(r)) /\ fs[LoadPath(r)] = "nifti"
    /\ pc' = [pc EXCEPT ![r] = "LOADED"]
    /\ UNCHANGED <<running, fs, issued, kind, session_id, output_img, args, invocations, resp>>

nib_load_fails(r) ==
    /\ running /\ kind[r] \in SegmentKinds /\ pc[r] = LoadPc(kind[r])
    /\ Raise(r, fs, "ImageFileError")
    /\ UNCHANGED <<running, issued, kind, session_id, invocations>>

totalsegmentator_call(r) ==
    /\ running /\ pc[r] = "LOADED"
    /\ \E field \in ImageTypeFields :
          args' = [args EXCEPT ![r] =
                     IF kind[r] = "segment"
                     THEN [image_type |-> field, task |-> SelectTask(FormValue(field))]
                     ELSE [image_type |-> Absent, task |-> "total_mr"]]
    /\ invocations' = [invocations EXCEPT ![r] = @ + 1]
    /\ pc' = [pc EXCEPT ![r] = "IN_PIPELINE"]
    /\ UNCHANGED <<running, fs, issued, kind, session_id, output_img, resp>>

\* The returned image is modelled by the task it was produced for.
totalsegmentator_returns(r) ==
    /\ running /\ pc[r] = "IN_PIPELINE"
    /\ output_img' = [output_img EXCEPT ![r] = args[r].task]
    /\ args' = [args EXCEPT ![r] = NoArgs]
    /\ pc' = [pc EXCEPT ![r] = "SEGMENTED"]
    /\ UNCHANGED <<running, fs, issued, kind, session_id, invocations, resp>>

totalsegmentator_retried(r) ==
    /\ running /\ pc[r] = "IN_PIPELINE"
    /\ pc' = [pc EXCEPT ![r] = "LOADED"]
    /\ UNCHANGED <<running, fs, issued, kind, session_id, output_img, args, invocations, resp>>

totalsegmentator_fails(r) ==
    /\ running /\ pc[r] = "IN_PIPELINE"
    /\ Raise(r, fs, "RuntimeError")
    /\ UNCHANGED <<running, issued, kind, session_id, invocations>>

nib_save(r) ==
    /\ running /\ pc[r] = "SEGMENTED"
    /\ \E name \in SaveNames(output_dir(session_id[r])) :
          fs' = WriteFile(makedirs(fs, output_dir(session_id[r])), name, output_img[r])
    /\ pc' = [pc EXCEPT ![r] = "SAVED"]
    /\ UNCHANGED <<running, issued, kind, session_id, output_img, args, invocations, resp>>

nib_save_fails(r) ==
    /\ running /\ pc[r] = "SEGMENTED"
    /\ \E made \in BOOLEAN :
          Raise(r, IF made THEN makedirs(fs, output_dir(session_id[r])) ELSE fs, "OSError")
    /\ UNCHANGED <<running, issued, kind, session_id, invocations>>

load_multilabel_and_respond(r) ==
    /\ running /\ pc[r] = "SAVED"
    /\ exists(fs, RereadPath(session_id[r]))
    /\ resp' = [resp EXCEPT ![r] = SuccessResponse(session_id[r], fs[RereadPath(session_id[r])])]
    /\ output_img' = [output_img EXCEPT ![r] = "none"]
    /\ pc' = [pc EXCEPT ![r] = "RESPONDED"]
    /\ UNCHANGED <<running, fs, issued, kind, session_id, args, invocations>>

load_multilabel_fails(r) ==
    /\ running /\ pc[r] = "SAVED"
    /\ Raise(r, fs, "LoadError")
    /\ UNCHANGED <<running, issued, kind, session_id, invocations>>

\* ------------------------------- GET /download/{session_id}/segmentation.nii
download_segmentation(r) ==
    /\ running /\ pc[r] = "idle"
    /\ \E id \in SessionIds :
          /\ session_id' = [session_id EXCEPT ![r] = id]
          /\ resp' = [resp EXCEPT ![r] = DownloadResponse(fs, id)]
    /\ kind' = [kind EXCEPT ![r] = "download"]
    /\ pc' = [pc EXCEPT ![r] = "DONE"]
    /\ UNCHANGED <<running, fs, issued, output_img, args, invocations>>

\* ------------------------------------------------------ process shutdown
Shutdown ==
    /\ running
    /\ running' = FALSE
    /\ fs' = RunExitHooks(fs)
    /\ UNCHANGED <<issued, pc, kind, session_id, output_img, args, invocations, resp>>

Next ==
    \/ \E r \in Requests : segment_image_begin(r)
    \/ \E r \in Requests : begin_makedirs_fails(r)
    \/ \E r \in Requests : segment_save_upload(r)
    \/ \E r \in Requests : segment_save_upload_fails(r)
    \/ \E r \in Requests : segment_example_begin(r)
    \/ \E r \in Requests : nib_load(r)
    \/ \E r \in Requests : nib_load_fails(r)
    \/ \E r \in Requests : totalsegmentator_call(r)
    \/ \E r \in Requests : totalsegmentator_returns(r)
    \/ \E r \in Requests : totalsegmentator_fails(r)
    \/ \E r \in Requests : nib_save(r)
    \/ \E r \in Requests : nib_save_fails(r)
    \/ \E r \in Requests : load_multilabel_and_respond(r)
    \/ \E r \in Requests : load_multilabel_fails(r)
    \/ \E r \in Requests : download_segmentation(r)
    \/ Shutdown

Spec == Init /\ [][Next]_vars

\* ===================================================================
\* Properties
\* ===================================================================
MRSpellings == { <<"M", "R">>, <<"m", "r">>, <<"M", "r">>, <<"m", "R">> }

OutputFile(id) == << <<"totalsegmentator_api">>, <<id>>, <<"segmented_image", ".nii">> >>

SessionFiles(disk, id) == {p \in DOMAIN disk : Len(p) >= 2 /\ p[1] = <<"totalsegmentator_api">> /\ p[2] = <<id>>}

\* C1 (as stated): the task passed to the pipeline by /segment/ is "total_mr"
\* exactly when image_type is given and spells MR in some letter case; it is
\* "total" for any other string and when image_type is absent.
C1_TaskAbsentIsTotal ==
    \A r \in Requests :
        (pc[r] = "IN_PIPELINE" /\ kind[r] = "segment") =>
            args[r].task = IF args[r].image_type.present
                              /\ args[r].image_type.value \in MRSpellings
                           THEN "total_mr" ELSE "total"

\* C1 (amended): the task passed to the pipeline by /segment/ is "total_mr"
\* when image_type spells MR in any letter case or is absent from the request
\* (the form default is "MR"), and "total" for every other string.
C1_TaskSelection ==
    \A r \in Requests :
        (pc[r] = "IN_PIPELINE" /\ kind[r] = "segment") =>
            args[r].task = IF ~args[r].image_type.present
                              \/ args[r].image_type.value \in MRSpellings
                           THEN "total_mr" ELSE "total"

C1_Witness ==
    \E r, q \in Requests :
        /\ pc[r] = "IN_PIPELINE" /\ kind[r] = "segment"
        /\ args[r].image_type = Given(<<"m", "R">>) /\ args[r].task = "total_mr"
        /\ pc[q] = "IN_PIPELINE" /\ kind[q] = "segment"
        /\ args[q].image_type = Absent /\ args[q].task = "total_mr"

\* C2: whenever /segment/ or /example/ has returned a success response for
\* session S, <temp root>/S/segmented_image.nii is on disk, so a download of S
\* answers 200 with that file and not 404.
C2_OutputExistsOnSuccess ==
    \A r \in Requests :
        (kind[r] \in SegmentKinds /\ pc[r] = "RESPONDED") =>
            /\ resp[r].code = 200 /\ resp[r].status = "success"
            /\ resp[r].session_id = session_id[r]
            /\ resp[r].download_url = <<"download", session_id[r], "segmentation.nii">>
            /\ OutputFile(resp[r].session_id) \in DOMAIN fs
            /\ DownloadResponse(fs, resp[r].session_id).code = 200
            /\ DownloadResponse(fs, resp[r].session_id).body = OutputFile(resp[r].session_id)

C2_Witness ==
    \E r, q \in Requests :
        /\ kind[r] = "segment" /\ pc[r] = "RESPONDED"
        /\ kind[q] = "download" /\ session_id[q] = session_id[r] /\ resp[q].code = 200

\* C3: when loading the input, running the segmentation, saving the output or
\* re-reading the label map raised, nothing of that request's session directory
\* is left on disk once the error response is sent.
C3_FailureRemovesSessionDir ==
    \A r \in Requests :
        (kind[r] \in SegmentKinds /\ pc[r] = "FAILED") =>
            /\ resp[r].code = 500
            /\ SessionFiles(fs, session_id[r]) = {}

C3_Witness ==
    \E r \in Requests :
        /\ kind[r] = "segment" /\ pc[r] = "FAILED"
        /\ resp[r].detail = <<"Segmentation failed: ", "LoadError">>

\* C4 (as stated): every /segment/ request that ended with an error response,
\* whatever step failed (the upload write included), has no session directory
\* left on disk.
C4_EveryFailureRemovesSessionDir ==
    \A r \in Requests :
        (kind[r] = "segment" /\ pc[r] \in Terminal /\ resp[r].code = 500) =>
            SessionFiles(fs, session_id[r]) = {}

\* C5: a download of session S answers 404 without file bytes exactly when
\* <temp root>/S/segmented_image.nii is not on disk, and answers with that file
\* only when it is.
C5_DownloadNotFound ==
    [][\A r \in Requests :
          (pc[r] = "idle" /\ kind'[r] = "download") =>
              /\ (resp'[r].code = 404) <=> (OutputFile(session_id'[r]) \notin DOMAIN fs)
              /\ resp'[r].code \in {200, 404}
              /\ resp'[r].code = 404 => "body" \notin DOMAIN resp'[r]
              /\ resp'[r].code = 200 => resp'[r].body = OutputFile(session_id'[r])]_vars

C5_Witness ==
    \E r, q \in Requests :
        /\ kind[r] = "download" /\ resp[r].code = 404
        /\ kind[q] \in SegmentKinds /\ session_id[q] = session_id[r]
        /\ resp[q].code = 500 /\ resp[q].detail = <<"Segmentation failed: ", "LoadError">>

C7_ShutdownRemovesTempRoot ==
    ~running => \A p \in DOMAIN fs : p[1] # <<"totalsegmentator_api">>

\* C8 (as stated): every finished /segment/ or /example/ request has either a
\* success response with all five fields or a 500 whose message is
\* "Segmentation failed: " followed by the exception text; 404 comes only from
\* the download endpoint.
C8_TwoOutcomes ==
    \A r \in Requests :
        (kind[r] \in SegmentKinds /\ pc[r] \in Terminal) =>
            \/ /\ resp[r].code = 200
               /\ resp[r].status = "success"
               /\ DOMAIN resp[r] = {"code", "status", "session_id", "download_url",
                                    "segmentation_type", "label_map"}
            \/ /\ resp[r].code = 500
               /\ Len(resp[r].detail) = 2
               /\ resp[r].detail[1] = "Segmentation failed: "

\* C9: each segment request walks its steps in the fixed order (directory,
\* upload, load, pipeline, save, label map, response), invokes the pipeline at
\* most once, and takes no step after it failed or responded.
StepOrder(k) ==
    IF k = "segment"
    THEN <<"idle", "DIR_CREATED", "WRITTEN", "LOADED", "IN_PIPELINE", "SEGMENTED", "SAVED", "RESPONDED">>
    ELSE <<"idle", "DIR_CREATED", "LOADED", "IN_PIPELINE", "SEGMENTED", "SAVED", "RESPONDED">>

Consecutive(seq, a, b) == \E i \in 1..(Len(seq) - 1) : seq[i] = a /\ seq[i + 1] = b

C9_LinearFlow ==
    /\ [][\A r \in Requests :
            /\ (kind'[r] \in SegmentKinds /\ pc'[r] # pc[r]) =>
                  /\ pc[r] \notin Terminal
                  /\ \/ pc'[r] \in {"FAILED", "UNHANDLED"}
                     \/ Consecutive(StepOrder(kind'[r]), pc[r], pc'[r])
            /\ (kind[r] \in SegmentKinds /\ pc[r] \in Terminal) =>
                  /\ pc'[r] = pc[r] /\ resp'[r] = resp[r]
                  /\ invocations'[r] = invocations[r]
                  /\ session_id'[r] = session_id[r]]_vars
    /\ [](\A r \in Requests :
            /\ invocations[r] <= 1
            /\ pc[r] \in {"idle", "DIR_CREATED", "WRITTEN", "LOADED"} => invocations[r] = 0
            /\ pc[r] \in {"SEGMENTED", "SAVED", "RESPONDED"} => invocations[r] = 1
            /\ pc[r] \in {"DIR_CREATED", "WRITTEN", "LOADED", "IN_PIPELINE", "SEGMENTED", "SAVED"}
                  => session_dir(session_id[r]) \in DOMAIN fs
            /\ (kind[r] = "segment" /\ pc[r] \in {"LOADED", "IN_PIPELINE", "SEGMENTED", "SAVED"})
                  => input_path(session_id[r]) \in DOMAIN fs)

C9_Witness ==
    \E r, q \in Requests :
        /\ kind[r] = "segment" /\ pc[r] = "RESPONDED" /\ invocations[r] = 1
        /\ kind[q] = "example" /\ pc[q] = "FAILED" /\ invocations[q] = 1

\* C10: a step of one request changes no file of another session, downloads
\* change nothing on disk, and once a request returned success for S the output
\* file of S stays on disk and a download of S keeps answering with it.
Changed(old, new) ==
    {p \in DOMAIN old \cup DOMAIN new :
        ~(p \in DOMAIN old /\ p \in DOMAIN new /\ old[p] = new[p])}

C10_SessionIsolation ==
    [][/\ fs' # fs =>
            \E r \in Requests :
                /\ kind'[r] \in SegmentKinds /\ pc'[r] # pc[r]
                /\ \A q \in Requests \ {r} : pc'[q] = pc[q]
                /\ \A p \in Changed(fs, fs') : IsPrefix(session_dir(session_id'[r]), p)
       /\ \A r \in Requests :
            (kind[r] \in SegmentKinds /\ pc[r] = "RESPONDED") =>
                /\ OutputFile(session_id[r]) \in DOMAIN fs'
                /\ fs'[OutputFile(session_id[r])] = fs[OutputFile(session_id[r])]
                /\ DownloadResponse(fs', session_id[r]).code = 200]_vars

C10_Witness ==
    \E r, q \in Requests :
        /\ kind[r] \in SegmentKinds /\ pc[r] = "RESPONDED"
        /\ kind[q] \in SegmentKinds /\ pc[q] = "FAILED"
        /\ resp[q].detail = <<"Segmentation failed: ", "OSError">>

TypeOK ==
    /\ running \in BOOLEAN
    /\ issued \subseteq SessionIds
    /\ \A r \in Requests : invocations[r] \in 0..2

====
